---- MODULE Spec2Model ----
(***************************************************************************)
(* The React component App of src/frontend/src/App.js: the wallet/contract *)
(* controller of an on-chain tic-tac-toe page.  One behaviour is one page  *)
(* lifetime (the Play Again button reloads the page, which ends it).       *)
(*                                                                         *)
(* Strings that the code inspects with String.includes are sequences of    *)
(* words, so that a substring test is computed and not assumed.            *)
(***************************************************************************)
EXTENDS Integers, Sequences, FiniteSets, TLC

VARIABLES
    chain,            \* the contract's storage (board, turn, state, stake) over time, oldest first
    walletAuthorized, \* the wallet has authorized this page (listAccounts is non-empty)
    mounted,          \* the component is mounted (state setters act)
    contract,         \* useState contract: 0 is null, i is the handle init i built
    account,          \* useState account
    board,            \* useState board
    gameState,        \* useState gameState
    currentTurn,      \* useState currentTurn
    loading,          \* useState loading
    message,          \* useState message
    stakeAmount,      \* useState stakeAmount
    inits,            \* the runs of the effect's init(), with their closures
    refreshes,        \* updateGameState calls in flight, oldest first
    ops,              \* connectWallet / joinGame / makeMove calls in flight
    hist              \* history (ghost) variables the properties read

vars == <<chain, walletAuthorized, mounted, contract, account, board,
          gameState, currentTurn, loading, message, stakeAmount, inits, refreshes,
          ops, hist>>

ui == <<contract, account, board, gameState, currentTurn, loading, message, stakeAmount>>

view == <<board, currentTurn, gameState>>

-----------------------------------------------------------------------------
(* Bounds *)

\* Columns of row 1 that moves are played on (by anyone).
PlayCols == 1
\* updateGameState calls that may be in flight together.
MaxRefresh == 2

-----------------------------------------------------------------------------
(* Values *)

ExpectedChainId == 1234
OtherChainId == ExpectedChainId + 1

NoContract == 0
NoAccount == "null"
Me == "0xMe"
Other == "0xOther"
ZeroAddress == "0x0"

\* The view's empty cell: the JavaScript number 0 of line 79.
Empty == "0"

Rows == 1..3
EmptyRow == <<0, 0, 0>>
EmptyChainBoard == <<EmptyRow, EmptyRow, EmptyRow>>
InitialBoard == <<<<Empty, Empty, Empty>>, <<Empty, Empty, Empty>>, <<Empty, Empty, Empty>>>>

MsgInitial == <<"Connect", "your", "wallet", "to", "play">>
MsgSwitch == <<"Please", "switch", "to", "Monad", "Testnet", "in", "MetaMask">>
MsgConnected == <<"Connected", "to", "wallet">>
MsgStartedO == <<"Game", "started!", "You", "are", "O">>
MsgStartedX == <<"Game", "started!", "You", "are", "X">>
MsgDraw == <<"Game", "ended", "in", "a", "draw!">>
MsgWon == <<"You", "won!">>
MsgLost == <<"You", "lost!">>
MsgWaitingTx == <<"Waiting", "for", "transaction...">>
MsgProcessing == <<"Processing", "your", "move...">>
MsgCancelled == <<"Transaction", "cancelled">>
MsgConnectTestnet == <<"Please", "connect", "to", "Monad", "Testnet">>

\* err.message of the TypeError thrown by contract.getBoard(), contract.joinGame(...)
\* or contract.makeMove(...) when contract is null.
ErrNull == <<"Cannot", "read", "properties", "of", "null">>
\* err.message values of the provider and of the signer.
ErrNetwork == <<"network", "error">>
ErrChain == <<"network", "chain", "not", "supported">>
ErrRejected == <<"user", "rejected", "transaction">>
ErrReverted == <<"transaction", "failed">>
ErrRequest == <<"User", "rejected", "the", "request.">>

ReadErrors == {ErrNetwork}
InitErrors == {ErrNetwork, ErrChain}
TxErrors == {ErrRejected}
WalletErrors == {ErrRequest}

\* String.prototype.includes, on words.
Includes(msg, pat) ==
    \E i \in 0..(Len(msg) - Len(pat)) : SubSeq(msg, i + 1, i + Len(pat)) = pat

\* ethers.utils.formatEther on a stake counted in tenths of an ether.
FormatEther(tenths) ==
    IF tenths = 0 THEN "0.0" ELSE IF tenths = 1 THEN "0.1" ELSE "0.2"

-----------------------------------------------------------------------------
(* State setters: a setter of an unmounted component does nothing. *)

Set(cur, new) == IF mounted THEN new ELSE cur

-----------------------------------------------------------------------------
(* updateGameState's projection, lines 79 to 81 *)

MapCell(cell) == IF cell = 0 THEN Empty ELSE IF cell = 1 THEN "X" ELSE "O"

\* MapBoard with rows and columns exchanged.
MapBoardTransposed(boardState) ==
    [i \in DOMAIN boardState |-> [j \in DOMAIN boardState[i] |-> MapCell(boardState[j][i])]]

MapBoard(boardState) ==
    [i \in DOMAIN boardState |-> [j \in DOMAIN boardState[i] |-> MapCell(boardState[i][j])]]

MapTurn(turn) == IF turn = 0 THEN "X" ELSE "O"

\* MapState with the test of the second branch off by one.
MapStateShifted(state) ==
    IF state = 0 THEN "waiting" ELSE IF state = 2 THEN "playing" ELSE "completed"

MapState(state) ==
    IF state = 0 THEN "waiting" ELSE IF state = 1 THEN "playing" ELSE "completed"

-----------------------------------------------------------------------------
(* The initial state: the first render and the first run of the effect,   *)
(* whose init() has called getProvider() and awaits getNetwork().         *)

NewInit(c, a) ==
    [pc |-> "getNetwork", cContract |-> c, cAccount |-> a,
     listening |-> FALSE, queue |-> <<>>]

IdleInit ==
    [pc |-> "idle", cContract |-> NoContract, cAccount |-> NoAccount,
     listening |-> FALSE, queue |-> <<>>]

\* lastRead: what the last refresh to succeed returned, <<>> before any;
\* newestRead: what the most recently started of the refreshes that succeeded
\* returned; msgBy: the code that wrote message last; drawn: "handled" once a
\* listener has handled a GameEnded event with isDraw, "read" once a refresh
\* called after the game's end has resolved since, "failed" once the
\* updateGameState of such a listener has thrown or a refresh called after the
\* game's end has rejected.
InitHist ==
    [lastRead |-> <<>>, newestRead |-> <<>>, msgBy |-> "init", drawn |-> "no"]

\* The refresh was called when the contract had ended the game.
CalledAfterEnd(r) == chain[r.from].state = 2

Init ==
    /\ chain = <<[board |-> EmptyChainBoard, turn |-> 0, state |-> 0, stake |-> 1]>>
    /\ walletAuthorized \in BOOLEAN
    /\ mounted = TRUE
    /\ contract = NoContract
    /\ account = NoAccount
    /\ board = InitialBoard
    /\ gameState = "waiting"
    /\ currentTurn = "X"
    /\ loading = FALSE
    /\ message = MsgInitial
    /\ stakeAmount = "0"
    /\ inits = <<NewInit(NoContract, NoAccount), IdleInit>>
    /\ refreshes = <<>>
    /\ ops = <<>>
    /\ hist = InitHist

\* The contract's storage now.
Storage == chain[Len(chain)]

-----------------------------------------------------------------------------
(* The effect of lines 17 to 69 *)

\* The effect's cleanup, line 68: contract?.removeAllListeners(), on the contract
\* of the render the effect ran in.
Cleanup(ins, i) ==
    LET c == ins[i].cContract
    IN  IF c = NoContract THEN ins
        ELSE [ins EXCEPT ![c].listening = FALSE, ![c].queue = <<>>]

\* The run of the effect whose cleanup is pending.
CurrentEffect == IF inits[2].pc = "idle" THEN 1 ELSE 2

\* setAccount(a): a changed account re-renders, and the dependency [account] of
\* line 69 runs the previous effect's cleanup and the effect again, with the
\* contract and the account of that render in its closures.
SetAccount(ins, a) ==
    IF mounted /\ a # account
    THEN [Cleanup(ins, CurrentEffect) EXCEPT ![2] = NewInit(contract, a)]
    ELSE ins

\* The contract emits event e: every subscribed handle receives it.
Heard(in, e) == IF in.listening THEN [in EXCEPT !.queue = Append(@, e)] ELSE in

Emit(ins, e) == <<Heard(ins[1], e), Heard(ins[2], e)>>

-----------------------------------------------------------------------------
(* updateGameState, lines 71 to 85 *)

\* from: the moment of the call, as an index of chain; stale: a call made later
\* has resolved since.
NewRefresh == [from |-> Len(chain), stale |-> FALSE]

\* A call with contract c can be taken (the bound on the calls in flight).
CanUpdate(c) == c = NoContract \/ ~mounted \/ Len(refreshes) < MaxRefresh

\* The calls in flight after updateGameState() with contract c in its closure:
\* with a null contract, contract.getBoard() throws inside the try at once.
UpdRefreshes(c) ==
    IF c = NoContract \/ ~mounted THEN refreshes ELSE Append(refreshes, NewRefresh)

\* The message after the caller set m and called updateGameState(), line 83.
UpdMessage(c, m) == IF c = NoContract THEN ErrNull ELSE m

Remove(seq, k) == SubSeq(seq, 1, k - 1) \o SubSeq(seq, k + 1, Len(seq))

RECURSIVE Outdate(_)
Outdate(seq) ==
    IF seq = <<>> THEN <<>>
    ELSE <<[Head(seq) EXCEPT !.stale = TRUE]>> \o Outdate(Tail(seq))

\* What a read of call k can return: the field as the contract held it at some
\* moment between the call and now.
Readable(k, field) == {chain[v][field] : v \in refreshes[k].from..Len(chain)}

\* Lines 73 to 81: Promise.all resolved with boardState, turn and state, the
\* answers of getBoard(), currentTurn() and gameState(), each read on its own.
updateResolve(k, boardState, turn, state) ==
    /\ k \in DOMAIN refreshes
    /\ boardState \in Readable(k, "board")
    /\ turn \in Readable(k, "turn")
    /\ state \in Readable(k, "state")
    /\ LET read == <<boardState, turn, state>>
       IN  /\ board' = Set(board, MapBoard(read[1]))
           /\ currentTurn' = Set(currentTurn, MapTurn(read[2]))
           /\ gameState' = Set(gameState, MapState(read[3]))
           /\ refreshes' = Outdate(SubSeq(refreshes, 1, k - 1))
                              \o SubSeq(refreshes, k + 1, Len(refreshes))
           /\ hist' = IF mounted
                      THEN [hist EXCEPT !.lastRead = read,
                                        !.newestRead = IF refreshes[k].stale THEN @ ELSE read,
                                        !.drawn = IF @ = "handled" /\ CalledAfterEnd(refreshes[k])
                                                  THEN "read" ELSE @]
                      ELSE hist
    /\ UNCHANGED <<chain, walletAuthorized, mounted, contract, account,
                   loading, message, stakeAmount, inits, ops>>

\* updateReject with the board set before the rejection is seen (the reads
\* awaited one by one and not through Promise.all).
updateRejectPartial(k, err) ==
    /\ k \in DOMAIN refreshes
    /\ message' = Set(message, err)
    /\ board' = Set(board, MapBoard(Storage.board))
    /\ refreshes' = Remove(refreshes, k)
    /\ hist' = [hist EXCEPT !.msgBy = Set(@, "refresh"),
                            !.drawn = IF @ # "no" /\ CalledAfterEnd(refreshes[k])
                                      THEN "failed" ELSE @]
    /\ UNCHANGED <<chain, walletAuthorized, mounted, contract, account,
                   gameState, currentTurn, loading, stakeAmount, inits, ops>>

\* Lines 82 to 84: one of the reads rejected, Promise.all rejects with its error.
updateReject(k, err) ==
    /\ k \in DOMAIN refreshes
    /\ message' = Set(message, err)
    /\ refreshes' = Remove(refreshes, k)
    /\ hist' = [hist EXCEPT !.msgBy = Set(@, "refresh"),
                            !.drawn = IF @ # "no" /\ CalledAfterEnd(refreshes[k])
                                      THEN "failed" ELSE @]
    /\ UNCHANGED <<chain, walletAuthorized, mounted, contract, account, board,
                   gameState, currentTurn, loading, stakeAmount, inits, ops>>

-----------------------------------------------------------------------------
(* init, lines 18 to 65 *)

Awaiting(i) == inits[i].pc \in {"getNetwork", "stakeAmount", "listAccounts"}

\* Lines 23 to 30: getNetwork() answered with chainId; the chain id check, then
\* setContract.
initNetwork(i, chainId) ==
    /\ inits[i].pc = "getNetwork"
    /\ message' = Set(message, IF chainId # ExpectedChainId THEN MsgSwitch ELSE message)
    /\ contract' = Set(contract, i)
    /\ inits' = [inits EXCEPT ![i].pc = "stakeAmount"]
    /\ hist' = [hist EXCEPT !.msgBy = IF chainId # ExpectedChainId THEN Set(@, "init") ELSE @]
    /\ UNCHANGED <<chain, walletAuthorized, mounted, account, board, gameState,
                   currentTurn, loading, stakeAmount, refreshes, ops>>

\* Lines 33 to 50: stakeAmount() answered; the three listeners are subscribed on
\* the handle this run built.
initStake(i) ==
    /\ inits[i].pc = "stakeAmount"
    /\ stakeAmount' = Set(stakeAmount, FormatEther(Storage.stake))
    /\ inits' = [inits EXCEPT ![i].pc = "listAccounts", ![i].listening = TRUE]
    /\ UNCHANGED <<chain, walletAuthorized, mounted, contract, account, board,
                   gameState, currentTurn, loading, message, refreshes, ops, hist>>

\* Lines 53 to 58: listAccounts() answered.
initAccounts(i) ==
    /\ inits[i].pc = "listAccounts"
    /\ LET c == inits[i].cContract
       IN  IF walletAuthorized
           THEN /\ CanUpdate(c)
                /\ account' = Set(account, Me)
                /\ message' = Set(message, UpdMessage(c, MsgConnected))
                /\ refreshes' = UpdRefreshes(c)
                /\ inits' = SetAccount([inits EXCEPT ![i].pc = "done"], Me)
                /\ hist' = [hist EXCEPT !.msgBy = Set(@, "init")]
           ELSE /\ inits' = [inits EXCEPT ![i].pc = "done"]
                /\ UNCHANGED <<account, message, refreshes, hist>>
    /\ UNCHANGED <<chain, walletAuthorized, mounted, contract, board, gameState,
                   currentTurn, loading, stakeAmount, ops>>

\* Lines 60 to 64: an awaited call of init rejected.
initCatch(i, err) ==
    /\ Awaiting(i)
    /\ message' = Set(message, IF Includes(err, <<"chain", "not", "supported">>)
                               THEN MsgConnectTestnet ELSE err)
    /\ inits' = [inits EXCEPT ![i].pc = "done"]
    /\ hist' = [hist EXCEPT !.msgBy = Set(@, "init")]
    /\ UNCHANGED <<chain, walletAuthorized, mounted, contract, account, board,
                   gameState, currentTurn, loading, stakeAmount, refreshes, ops>>

\* The message the listener of event e sets, with account a in its closure:
\* lines 38, 47 and 48 (the MoveMade listener sets none).
HandlerMessage(e, a) ==
    IF e.name = "GameStarted"
    THEN (IF e.playerO = a THEN MsgStartedO ELSE MsgStartedX)
    ELSE IF e.name = "GameEnded"
    THEN (IF e.isDraw THEN MsgDraw ELSE IF e.winner = a THEN MsgWon ELSE MsgLost)
    ELSE message

\* Lines 37 to 50: the handle of run i delivers its oldest event to its listener.
deliver(i) ==
    /\ inits[i].listening
    /\ inits[i].queue # <<>>
    /\ LET e == Head(inits[i].queue)
           c == inits[i].cContract
       IN  /\ CanUpdate(c)
           /\ message' = Set(message, UpdMessage(c, HandlerMessage(e, inits[i].cAccount)))
           /\ refreshes' = UpdRefreshes(c)
           /\ inits' = [inits EXCEPT ![i].queue = Tail(@)]
           /\ hist' = [hist EXCEPT
                         !.msgBy = IF e.name = "MoveMade" /\ c # NoContract
                                   THEN @ ELSE Set(@, "handler"),
                         !.drawn = IF mounted /\ e.name = "GameEnded" /\ e.isDraw
                                   THEN (IF c = NoContract THEN "failed"
                                         ELSE IF @ = "no" THEN "handled" ELSE @)
                                   ELSE @]
    /\ UNCHANGED <<chain, walletAuthorized, mounted, contract, account, board,
                   gameState, currentTurn, loading, stakeAmount, ops>>

\* The component is disposed: the cleanup of the effect's last run.  The calls of
\* updateGameState, connectWallet, joinGame and makeMove in
\* flight end in setters of an unmounted component, which do nothing: they are
\* followed no further.  The runs of init go on, as they still subscribe.
dispose ==
    /\ mounted
    /\ mounted' = FALSE
    /\ inits' = Cleanup(inits, CurrentEffect)
    /\ refreshes' = <<>>
    /\ ops' = <<>>
    /\ UNCHANGED <<chain, walletAuthorized, ui, hist>>

-----------------------------------------------------------------------------
(* The contract: what the transactions mined do to its storage, and its     *)
(* events.  The transactions are those of either player, this page's among *)
(* them: the contract decides what a submitted transaction does, and when. *)
(* The contract is followed while the component is mounted: after that no  *)
(* read and no event changes the state of the page.                        *)

PlayCells == {<<1, j>> : j \in 1..PlayCols}

Started(po) ==
    [name |-> "GameStarted", playerX |-> IF po = Me THEN Other ELSE Me, playerO |-> po]

Ended(w) ==
    [name |-> "GameEnded", winner |-> IF w = "draw" THEN ZeroAddress ELSE w,
     isDraw |-> (w = "draw")]

StartGame == Append(chain, [Storage EXCEPT !.state = 1])

PlaceMark(r, c) ==
    Append(chain, [Storage EXCEPT !.board[r][c] = Storage.turn + 1, !.turn = 1 - Storage.turn])

EndGame == Append(chain, [Storage EXCEPT !.state = 2])

CanPlace(r, c) == Storage.state = 1 /\ Storage.board[r][c] = 0

\* A join is mined and starts the game; po plays O.
ChainStart(po) ==
    /\ mounted
    /\ Storage.state = 0
    /\ chain' = StartGame
    /\ inits' = Emit(inits, Started(po))
    /\ UNCHANGED <<walletAuthorized, mounted, ui, refreshes, ops, hist>>

\* A move is mined.
ChainMove(r, c) ==
    /\ mounted
    /\ CanPlace(r, c)
    /\ chain' = PlaceMark(r, c)
    /\ inits' = Emit(inits, [name |-> "MoveMade"])
    /\ UNCHANGED <<walletAuthorized, mounted, ui, refreshes, ops, hist>>

\* The contract ends the game.
ChainEnd(w) ==
    /\ mounted
    /\ Storage.state = 1
    /\ chain' = EndGame
    /\ inits' = Emit(inits, Ended(w))
    /\ UNCHANGED <<walletAuthorized, mounted, ui, refreshes, ops, hist>>

-----------------------------------------------------------------------------
(* What the render of lines 150 to 229 lets the user do *)

\* Lines 154 to 162: the Connect Wallet button.
ConnectEnabled == mounted /\ account = NoAccount /\ ~loading

\* Lines 163 to 169: the Add Monad Network button.
AddNetworkEnabled == mounted /\ account = NoAccount

\* JoinEnabled without the disabled={loading} of line 179.
JoinEnabledWhileBusy == mounted /\ account # NoAccount /\ gameState = "waiting"

\* Lines 176 to 184: the Join Game button.
JoinEnabled == mounted /\ account # NoAccount /\ gameState = "waiting" /\ ~loading

\* CellEnabled without the cell === 0 of line 195.
CellEnabledAnyCell(i, j) ==
    mounted /\ account # NoAccount /\ gameState = "playing" /\ ~loading

\* Lines 186 to 195: a cell of the board, and the test of its onClick.
CellEnabled(i, j) ==
    mounted /\ account # NoAccount /\ gameState = "playing" /\ ~loading /\ board[i][j] = Empty

\* Line 202: {cell || ''}, the text of a cell.
CellText(cell) == IF cell = Empty THEN "" ELSE cell

\* Render with the board under gameState !== 'waiting'.
RenderBoardUnlessWaiting ==
    IF account = NoAccount
    THEN [connect |-> TRUE, join |-> FALSE, turn |-> <<>>, cells |-> <<>>,
          playAgain |-> FALSE]
    ELSE [connect |-> FALSE,
          join |-> (gameState = "waiting"),
          turn |-> IF gameState # "waiting" THEN <<currentTurn>> ELSE <<>>,
          cells |-> IF gameState # "waiting"
                    THEN [i \in Rows |-> [j \in Rows |-> CellText(board[i][j])]]
                    ELSE <<>>,
          playAgain |-> (gameState = "completed")]

\* Lines 154 to 218: what the render shows.  connect: the Connect Wallet and Add
\* Monad Network buttons; join: the Join Game button; turn: the "Current Turn"
\* line, <<>> when there is none; cells: the texts of the board's cells, <<>>
\* when there is no board; playAgain: the Play Again button.
Render ==
    IF account = NoAccount
    THEN [connect |-> TRUE, join |-> FALSE, turn |-> <<>>, cells |-> <<>>,
          playAgain |-> FALSE]
    ELSE [connect |-> FALSE,
          join |-> (gameState = "waiting"),
          turn |-> IF gameState = "playing" THEN <<currentTurn>> ELSE <<>>,
          cells |-> IF gameState = "playing"
                    THEN [i \in Rows |-> [j \in Rows |-> CellText(board[i][j])]]
                    ELSE <<>>,
          playAgain |-> (gameState = "completed")]

-----------------------------------------------------------------------------
(* connectWallet, joinGame, makeMove, addMonadNetwork: lines 87 to 148 *)

\* pc: "request" for connectWallet, "sent" for a transaction, "sentUnplayable"
\* for a move the contract's storage did not allow when it was submitted (history).
NewOp(kind, pc, r, c) == [kind |-> kind, pc |-> pc, row |-> r, col |-> c]

\* Finally with setLoading(false) left out.
FinallyMissing == loading

\* The finally blocks of lines 96 to 98, 111 to 113 and 124 to 126.
Finally == Set(loading, FALSE)

\* JoinCatch with the test written for the wallet's capitalised wording.
JoinCatchCapital(err) == IF Includes(err, <<"User", "rejected">>) THEN MsgCancelled ELSE err

\* The catch of joinGame, lines 107 to 110.
JoinCatch(err) == IF Includes(err, <<"user", "rejected">>) THEN MsgCancelled ELSE err

\* The catch of makeMove, lines 122 to 123.
MoveCatch(err) == err

CatchMessage(kind, err) == IF kind = "join" THEN JoinCatch(err) ELSE MoveCatch(err)

\* Lines 88 to 91: the click on Connect Wallet, up to the await.
connectWallet ==
    /\ ConnectEnabled
    /\ loading' = TRUE
    /\ ops' = Append(ops, NewOp("connect", "request", 0, 0))
    /\ UNCHANGED <<chain, walletAuthorized, mounted, contract, account, board,
                   gameState, currentTurn, message, stakeAmount, inits, refreshes, hist>>

\* Lines 92, 93 and 97: eth_requestAccounts answered with the wallet's account.
connectResolve(k) ==
    /\ k \in DOMAIN ops /\ ops[k].kind = "connect"
    /\ walletAuthorized' = TRUE
    /\ account' = Set(account, Me)
    /\ message' = Set(message, MsgConnected)
    /\ loading' = Finally
    /\ inits' = SetAccount(inits, Me)
    /\ ops' = Remove(ops, k)
    /\ hist' = [hist EXCEPT !.msgBy = Set(@, "op")]
    /\ UNCHANGED <<chain, mounted, contract, board, gameState, currentTurn,
                   stakeAmount, refreshes>>

\* connectReject with a catch that drops the error.
connectRejectSilent(k, err) ==
    /\ k \in DOMAIN ops /\ ops[k].kind = "connect"
    /\ loading' = Finally
    /\ ops' = Remove(ops, k)
    /\ UNCHANGED <<chain, walletAuthorized, mounted, contract, account, board, message,
                   gameState, currentTurn, stakeAmount, inits, refreshes, hist>>

\* Lines 94 to 97: eth_requestAccounts rejected.
connectReject(k, err) ==
    /\ k \in DOMAIN ops /\ ops[k].kind = "connect"
    /\ message' = Set(message, err)
    /\ loading' = Finally
    /\ ops' = Remove(ops, k)
    /\ hist' = [hist EXCEPT !.msgBy = Set(@, "op")]
    /\ UNCHANGED <<chain, walletAuthorized, mounted, contract, account, board,
                   gameState, currentTurn, stakeAmount, inits, refreshes>>

\* Submit with the move drawn on the board before the transaction is mined.
SubmitOptimistic(kind, pc, r, c, waitingMsg) ==
    /\ IF contract = NoContract
       THEN /\ loading' = Finally
            /\ message' = CatchMessage(kind, ErrNull)
            /\ ops' = ops
       ELSE /\ loading' = TRUE
            /\ message' = waitingMsg
            /\ ops' = Append(ops, NewOp(kind, pc, r, c))
    /\ board' = IF kind = "move" THEN [board EXCEPT ![r][c] = currentTurn] ELSE board
    /\ hist' = [hist EXCEPT !.msgBy = "op"]
    /\ UNCHANGED <<chain, walletAuthorized, mounted, contract, account,
                   gameState, currentTurn, stakeAmount, inits, refreshes>>

\* The start of joinGame (lines 102 to 105) or of makeMove (lines 117 to 120), on
\* the contract of the current render: with a null contract the call throws at
\* once, and catch and finally run before the handler returns.
Submit(kind, pc, r, c, waitingMsg) ==
    /\ IF contract = NoContract
       THEN /\ loading' = Finally
            /\ message' = CatchMessage(kind, ErrNull)
            /\ ops' = ops
       ELSE /\ loading' = TRUE
            /\ message' = waitingMsg
            /\ ops' = Append(ops, NewOp(kind, pc, r, c))
    /\ hist' = [hist EXCEPT !.msgBy = "op"]
    /\ UNCHANGED <<chain, walletAuthorized, mounted, contract, account, board,
                   gameState, currentTurn, stakeAmount, inits, refreshes>>

\* Lines 101 to 105: the click on Join Game.
joinGame ==
    /\ JoinEnabled
    /\ Submit("join", "sent", 0, 0, MsgWaitingTx)

\* Lines 116 to 120 and 195: the click on the cell of row and col.
makeMove(row, col) ==
    /\ CellEnabled(row, col)
    /\ Submit("move", IF CanPlace(row, col) THEN "sent" ELSE "sentUnplayable",
              row, col, MsgProcessing)

\* Lines 106 and 121: tx.wait() answered; then the finally.
txResolve(k) ==
    /\ k \in DOMAIN ops /\ ops[k].kind \in {"join", "move"}
    /\ loading' = Finally
    /\ ops' = Remove(ops, k)
    /\ UNCHANGED <<chain, walletAuthorized, mounted, contract, account, board,
                   gameState, currentTurn, message, stakeAmount, inits, refreshes, hist>>

\* The errors the awaited calls of a transaction can reject with: stakeAmount()
\* (line 105), the submission (lines 105 and 120), tx.wait() (lines 106 and 121).
OpErrors(kind) ==
    (IF kind = "join" THEN ReadErrors ELSE {}) \cup TxErrors \cup {ErrReverted}

\* Lines 107 to 113 and 122 to 126: an awaited call rejected; catch, then finally.
txReject(k, err) ==
    /\ k \in DOMAIN ops /\ ops[k].kind \in {"join", "move"}
    /\ err \in OpErrors(ops[k].kind)
    /\ message' = Set(message, CatchMessage(ops[k].kind, err))
    /\ loading' = Finally
    /\ ops' = Remove(ops, k)
    /\ hist' = [hist EXCEPT !.msgBy = Set(@, "op")]
    /\ UNCHANGED <<chain, walletAuthorized, mounted, contract, account, board,
                   gameState, currentTurn, stakeAmount, inits, refreshes>>

\* Lines 129 to 148, the whole of addMonadNetwork, from the click to the wallet's
\* answer, which comes while the button is still shown.  An accepted request
\* changes nothing (no action); a rejected one reaches line 146.
addMonadNetwork(err) ==
    /\ AddNetworkEnabled
    /\ message' = err
    /\ hist' = [hist EXCEPT !.msgBy = "addNetwork"]
    /\ UNCHANGED <<chain, walletAuthorized, mounted, contract, account, board, gameState,
                   currentTurn, loading, stakeAmount, inits, refreshes, ops>>

-----------------------------------------------------------------------------
(* The specification *)

\* The steps of the page and of its environment, the network answering
\* getNetwork() with a chain id of chainIds.
NextOn(chainIds) ==
    \/ \E i \in 1..2, chainId \in chainIds : initNetwork(i, chainId)
    \/ \E i \in 1..2 : initStake(i)
    \/ \E i \in 1..2 : initAccounts(i)
    \/ \E i \in 1..2, err \in InitErrors : initCatch(i, err)
    \/ \E i \in 1..2 : deliver(i)
    \/ \E k \in DOMAIN refreshes :
          \E boardState \in Readable(k, "board"), turn \in {0, 1}, state \in {0, 1, 2} :
             updateResolve(k, boardState, turn, state)
    \/ \E k \in DOMAIN refreshes, err \in ReadErrors : updateReject(k, err)
    \/ connectWallet
    \/ \E k \in DOMAIN ops : connectResolve(k)
    \/ \E k \in DOMAIN ops, err \in WalletErrors : connectReject(k, err)
    \/ joinGame
    \/ \E cell \in PlayCells : makeMove(cell[1], cell[2])
    \/ \E k \in DOMAIN ops : txResolve(k)
    \/ \E k \in DOMAIN ops, err \in TxErrors \cup ReadErrors \cup {ErrReverted} : txReject(k, err)
    \/ \E err \in WalletErrors : addMonadNetwork(err)
    \/ dispose
    \/ \E po \in {Me, Other} : ChainStart(po)
    \/ \E cell \in PlayCells : ChainMove(cell[1], cell[2])
    \/ \E w \in {"draw", Me, Other} : ChainEnd(w)

Next == NextOn({ExpectedChainId, OtherChainId})

Spec == Init /\ [][Next]_vars

\* The page on a network that is not the expected one.
NextMismatch == NextOn({OtherChainId})

SpecMismatch == Init /\ [][NextMismatch]_vars

-----------------------------------------------------------------------------
(* The projection of lines 79 to 81 on its own: a refresh in flight on any   *)
(* storage the three reads can answer with, and its resolution.            *)

Cells == {0, 1, 2}
AllBoards == [Rows -> [Rows -> Cells]]

InitMap ==
    /\ \E b \in AllBoards, t \in {0, 1}, s \in {0, 1, 2} :
          chain = <<[board |-> <<b[1], b[2], b[3]>>, turn |-> t, state |-> s, stake |-> 1]>>
    /\ walletAuthorized = TRUE
    /\ mounted = TRUE
    /\ contract = 1
    /\ account = Me
    /\ board = InitialBoard
    /\ gameState = "waiting"
    /\ currentTurn = "X"
    /\ loading = FALSE
    /\ message = MsgConnected
    /\ stakeAmount = FormatEther(1)
    /\ inits = <<[NewInit(NoContract, NoAccount) EXCEPT !.pc = "done"],
                 [NewInit(1, Me) EXCEPT !.pc = "done"]>>
    /\ refreshes = <<[from |-> 1, stale |-> FALSE]>>
    /\ ops = <<>>
    /\ hist = InitHist

NextMap ==
    \E k \in DOMAIN refreshes :
       \E boardState \in Readable(k, "board"), turn \in {0, 1}, state \in {0, 1, 2} :
          updateResolve(k, boardState, turn, state)

SpecMap == InitMap /\ [][NextMap]_vars

-----------------------------------------------------------------------------
(* Properties *)

Project(read) == <<MapBoard(read[1]), MapTurn(read[2]), MapState(read[3])>>

Rank(phase) == IF phase = "waiting" THEN 0 ELSE IF phase = "playing" THEN 1 ELSE 2

JoinOrMoveInFlight == \E k \in DOMAIN ops : ops[k].kind \in {"join", "move"}

\* No call, event or run of init is pending on the mounted page.
Quiet ==
    /\ refreshes = <<>>
    /\ ops = <<>>
    /\ \A i \in 1..2 : ~Awaiting(i) /\ (inits[i].listening => inits[i].queue = <<>>)

\* C1: while a joinGame or a makeMove is in flight, loading is true; the step
\* that completes it (its confirmation, its failure, or the immediate failure of
\* the click itself) leaves loading false.
C1_BusyWhileJoinOrMove ==
    /\ [](JoinOrMoveInFlight => loading)
    /\ [][/\ (JoinOrMoveInFlight /\ mounted' /\ Len(ops') < Len(ops)) => ~loading'
          /\ ((joinGame \/ \E cell \in PlayCells : makeMove(cell[1], cell[2]))
                 /\ ops' = ops) => ~loading']_vars

\* A makeMove has failed while its transaction was awaited, and loading is false.
C1_Witness ==
    /\ ops = <<>> /\ ~loading /\ mounted
    /\ hist.msgBy = "op" /\ message = ErrReverted /\ gameState = "playing"

\* C2: the step in which an updateGameState fails (a read rejected, or the call
\* on a null contract throwing) leaves board, currentTurn and gameState as they
\* were and sets message to the error's message.
C2_FailedRefreshKeepsView ==
    [][/\ \A k \in DOMAIN refreshes, err \in ReadErrors :
             updateReject(k, err) =>
                board' = board /\ currentTurn' = currentTurn
                   /\ gameState' = gameState /\ message' = err
       /\ \A i \in 1..2 :
             (mounted /\ inits[i].cContract = NoContract
                 /\ (deliver(i) \/ (walletAuthorized /\ initAccounts(i)))) =>
                board' = board /\ currentTurn' = currentTurn
                   /\ gameState' = gameState /\ message' = ErrNull]_vars

\* A refresh has failed on a page that showed a game being played, and still does.
C2_Witness ==
    /\ hist.msgBy = "refresh" /\ message = ErrNetwork
    /\ gameState = "playing" /\ board # InitialBoard

\* C3: a joinGame that fails sets message to "Transaction cancelled" when the
\* failure is the user's rejection of the transaction, and to the error's own
\* message otherwise.
C3_JoinFailureMessage ==
    [][/\ \A k \in DOMAIN ops, err \in OpErrors("join") :
             (ops[k].kind = "join" /\ txReject(k, err)) =>
                message' = IF err = ErrRejected THEN MsgCancelled ELSE err
       /\ (joinGame /\ ops' = ops) => message' = ErrNull]_vars

\* The user has rejected the transaction of a joinGame.
C3_Witness ==
    /\ message = MsgCancelled /\ hist.msgBy = "op" /\ ops = <<>> /\ ~loading

\* C4: with no refresh in flight, the view is the projection of what the most
\* recently started of the successful refreshes returned: an older refresh that
\* completes later does not replace it.
C4_NewestRefreshShown ==
    (mounted /\ refreshes = <<>> /\ hist.newestRead # <<>>)
    => view = Project(hist.newestRead)

\* C5: board, currentTurn and gameState change only in the step in which an
\* updateGameState resolves.
C5_OnlyRefreshChangesView ==
    [][view' # view =>
          \E k \in DOMAIN refreshes :
             \E boardState \in Readable(k, "board"), turn \in {0, 1}, state \in {0, 1, 2} :
                updateResolve(k, boardState, turn, state)]_vars

\* A makeMove is in flight, the contract holds a mark on the cell, and the board
\* shown has not changed.
C5_Witness ==
    /\ \E k \in DOMAIN ops : ops[k].kind = "move" /\ ops[k].row = 1 /\ ops[k].col = 1
    /\ Storage.board[1][1] # 0
    /\ board[1][1] = Empty

\* C6: gameState never moves backward: not from completed to playing or
\* waiting, not from playing to waiting.
C6_PhaseMonotone == [][Rank(gameState') >= Rank(gameState)]_vars

\* C7: only the handle of the latest run of the effect is subscribed, and none
\* is once the component is disposed.
C7_OneListenerSet ==
    \A i \in 1..2 : inits[i].listening => (mounted /\ i = CurrentEffect)

\* C8: once a GameEnded event with isDraw has been handled, the refreshes
\* called since the game's end have all resolved (with the state 2), every
\* handler has run, nothing is pending and nothing but a handler has written
\* message since, message is "Game ended in a draw!" and gameState is completed.
C8_DrawShown ==
    (mounted /\ hist.drawn = "read" /\ Quiet /\ hist.msgBy = "handler")
    => (message = MsgDraw /\ gameState = "completed")

\* C9: a refresh that read the state 0 shows waiting, 1 playing, 2 completed.
C9_PhaseMapping ==
    hist.lastRead # <<>> =>
       /\ hist.lastRead[3] = 0 => gameState = "waiting"
       /\ hist.lastRead[3] = 1 => gameState = "playing"
       /\ hist.lastRead[3] = 2 => gameState = "completed"

\* A refresh has read the state 1 and the page shows playing.
C9_Witness == hist.lastRead # <<>> /\ hist.lastRead[3] = 1 /\ gameState = "playing"

\* C10: a refresh shows each cell at its own position, 0 as Empty, 1 as X, 2 as
\* O, and the turn 0 as X, 1 as O.
C10_CellAndTurnMapping ==
    hist.lastRead # <<>> =>
       /\ DOMAIN board = Rows
       /\ \A i \in Rows : DOMAIN board[i] = Rows
       /\ \A i \in Rows, j \in Rows :
             /\ hist.lastRead[1][i][j] = 0 => board[i][j] = Empty
             /\ hist.lastRead[1][i][j] = 1 => board[i][j] = "X"
             /\ hist.lastRead[1][i][j] = 2 => board[i][j] = "O"
       /\ hist.lastRead[2] = 0 => currentTurn = "X"
       /\ hist.lastRead[2] = 1 => currentTurn = "O"

\* A refresh has read X at row 1, column 2, O at row 2, column 1, an empty cell
\* and the turn 1, and the page shows them so.
C10_Witness ==
    /\ hist.lastRead # <<>>
    /\ hist.lastRead[1][1][2] = 1 /\ board[1][2] = "X"
    /\ hist.lastRead[1][2][1] = 2 /\ board[2][1] = "O"
    /\ hist.lastRead[1][3][3] = 0 /\ board[3][3] = Empty
    /\ hist.lastRead[2] = 1 /\ currentTurn = "O"

\* C11: with an account, the Join Game button is shown exactly when gameState is
\* waiting, the board and the "Current Turn" line exactly when it is playing,
\* the Play Again button exactly when it is completed; with no account none of
\* them is shown.
C11_RenderByPhase ==
    /\ gameState \in {"waiting", "playing", "completed"}
    /\ account # NoAccount =>
          /\ Render.join <=> gameState = "waiting"
          /\ Render.cells # <<>> <=> gameState = "playing"
          /\ Render.turn # <<>> <=> gameState = "playing"
          /\ gameState = "playing" =>
                /\ Render.turn = <<currentTurn>>
                /\ DOMAIN Render.cells = Rows
                /\ \A i \in Rows : DOMAIN Render.cells[i] = Rows
                /\ \A i \in Rows, j \in Rows :
                      Render.cells[i][j] = IF board[i][j] = Empty THEN "" ELSE board[i][j]
          /\ Render.playAgain <=> gameState = "completed"
    /\ account = NoAccount =>
          ~Render.join /\ Render.cells = <<>> /\ Render.turn = <<>> /\ ~Render.playAgain

\* An account is connected, the game is completed: Play Again is shown, the
\* board is not.
C11_Witness ==
    /\ mounted /\ account # NoAccount /\ gameState = "completed"
    /\ Render.playAgain /\ Render.cells = <<>> /\ ~Render.join

\* C12: at most one of connectWallet, joinGame and makeMove is in flight, and
\* none is started while loading is true.
C12_OneOperationInFlight ==
    /\ [](Len(ops) <= 1)
    /\ [][Len(ops') > Len(ops) => (~loading /\ ops = <<>>)]_vars

\* A connectWallet is in flight when init has set the account: the Join Game
\* button is shown, and loading is true.
C12_Witness ==
    /\ Len(ops) = 1 /\ ops[1].kind = "connect" /\ loading
    /\ account # NoAccount /\ Render.join

\* C13: a makeMove is submitted only from a state where loading is false,
\* gameState is playing and the cell shown is empty.
C13_MoveOnlyWhenEnabled ==
    [][\A cell \in PlayCells :
          (\/ makeMove(cell[1], cell[2])
           \/ /\ Len(ops') > Len(ops)
              /\ ops'[Len(ops')].kind = "move"
              /\ ops'[Len(ops')].row = cell[1] /\ ops'[Len(ops')].col = cell[2])
          => (~loading /\ gameState = "playing" /\ board[cell[1]][cell[2]] = Empty)]_vars

\* A makeMove is in flight that was submitted when the contract's storage did
\* not allow the move: nothing but the view was consulted.
C13_Witness ==
    \E k \in DOMAIN ops :
       ops[k].kind = "move" /\ ops[k].pc = "sentUnplayable" /\ loading

\* C14: the step in which init finds the wallet authorized calls an
\* updateGameState that reads the contract, and leaves message at "Connected to
\* wallet": the initial refresh produces no error message.
C14_InitialRefreshConnected ==
    [][\A i \in 1..2 :
          (mounted /\ walletAuthorized /\ initAccounts(i))
          => (message' = MsgConnected /\ Len(refreshes') = Len(refreshes) + 1)]_vars

\* C15: with an account connected, a listener that handles a GameEnded event
\* with isDraw false holds that account in its closure, and leaves message at "You won!" when the
\* winner is the connected account, at "You lost!" when it is not.
C15_HandlersUseCurrentAccount ==
    [][\A i \in 1..2 :
          (mounted /\ account # NoAccount /\ deliver(i)
              /\ Head(inits[i].queue).name = "GameEnded" /\ ~Head(inits[i].queue).isDraw)
          => /\ inits[i].cAccount = account
             /\ message' = IF Head(inits[i].queue).winner = account
                            THEN MsgWon ELSE MsgLost]_vars

\* C16: the step in which connectWallet succeeds sets account to the wallet's
\* account and message to "Connected to wallet"; the step in which it fails
\* leaves account as it was and sets message to the error's message; both leave
\* loading false.
C16_ConnectWalletOutcome ==
    [][\A k \in DOMAIN ops :
          /\ connectResolve(k) =>
                (account' = Me /\ message' = MsgConnected /\ ~loading')
          /\ \A err \in WalletErrors :
                connectReject(k, err) =>
                   (account' = account /\ message' = err /\ ~loading')]_vars

\* A connectWallet has failed: no account, the wallet's message, loading false.
C16_Witness ==
    /\ ops = <<>> /\ ~loading /\ mounted
    /\ account = NoAccount /\ message = ErrRequest /\ hist.msgBy = "op"

\* C17: on a network that is not the expected one, when an init finishes with
\* the switch-network warning still shown, and its refresh, if it calls one,
\* reaches the contract, the message it leaves is the warning, the contract is
\* bound and the listeners are subscribed.
C17_SwitchWarningShown ==
    [][\A i \in 1..2 :
          (mounted /\ message = MsgSwitch
              /\ (walletAuthorized => inits[i].cContract # NoContract)
              /\ initAccounts(i))
          => (message' = MsgSwitch /\ contract' # NoContract /\ inits'[i].listening)]_vars

\* C18: what a successful refresh returned is the board, the turn and the state
\* that the contract held together at one moment.
C18_ConsistentSnapshot ==
    (mounted /\ hist.lastRead # <<>>) =>
       \E v \in DOMAIN chain :
          hist.lastRead = <<chain[v].board, chain[v].turn, chain[v].state>>

====
